---- MODULE Spec2Model ----
(***************************************************************************)
(* Model of the interactive session of ogp-checker: the shared AppState,   *)
(* the key handler UI::handle_input, the fetch task update_ogp, the redraw *)
(* consumer of UI::run, URL normalization and the image-to-cell renderer.  *)
(***************************************************************************)
EXTENDS Integers, Sequences, FiniteSets, Bags, TLC

VARIABLES
    url,              \* AppState.url, as its sequence of UTF-8 bytes
    cursor_position,  \* AppState.cursor_position (a byte index)
    ogp_info,         \* AppState.ogp_info : Option<OGPInfo>
    cached_image,     \* AppState.cached_image : Option<Image>
    error_message,    \* AppState.error_message : Option<String>
    metadata_offset,  \* AppState.metadata_offset
    tasks,            \* the bag of spawned fetch tasks (update_ogp, then send)
    rx_changed,       \* the watch channel holds a version the receiver has not seen
    pc_redraw,        \* position of the redraw task of UI::run
    lock,             \* holder of the state mutex between steps, or "free"
    pc_input,         \* position of the input loop of UI::run
    norm,             \* trace of normalize_url applications (SpecNorm)
    render            \* state of the draw_image_with_colors loops (SpecRender)

vars == <<url, cursor_position, ogp_info, cached_image, error_message,
          metadata_offset, tasks, rx_changed, pc_redraw, lock, pc_input, norm, render>>

appvars == <<url, cursor_position, ogp_info, cached_image, error_message,
             metadata_offset>>

purevars == <<norm, render>>

(***************************************************************************)
(* Bounds of the model.                                                    *)
(***************************************************************************)
MaxUrlBytes == 2

MaxFetches == 1

MaxTags == 2

MaxTail == 1

MaxDim == 3

(***************************************************************************)
(* Option<T>: None is the empty sequence, Some(x) the one-element one.     *)
(***************************************************************************)
None == <<>>

Some(x) == <<x>>

IsSome(o) == o # <<>>

Unwrap(o) == o[1]

Max(a, b) == IF a >= b THEN a ELSE b

(***************************************************************************)
(* Strings are sequences of bytes.  A printable character is one byte      *)
(* ("a") or two (U+00E9 = C3 A9), as String stores it.                     *)
(***************************************************************************)
Chars == {"a", "U+00E9"}

Utf8(c) == IF c = "U+00E9" THEN <<"C3", "A9">> ELSE <<c>>

ContinuationBytes == {"A9"}

LeadBytes == {"C3"}

is_char_boundary(s, idx) ==
    \/ idx = 0
    \/ idx = Len(s)
    \/ idx < Len(s) /\ s[idx + 1] \notin ContinuationBytes

\* bytes of the character that starts at byte index idx of s
CharWidthAt(s, idx) == IF s[idx + 1] \in LeadBytes THEN 2 ELSE 1

\* String::insert(idx, c): panics unless idx is a char boundary
InsertPanics(s, idx) == ~is_char_boundary(s, idx)

StringInsert(s, idx, c) == SubSeq(s, 1, idx) \o Utf8(c) \o SubSeq(s, idx + 1, Len(s))

\* String::remove(idx): panics unless a character starts at idx
RemovePanics(s, idx) == idx >= Len(s) \/ ~is_char_boundary(s, idx)

StringRemove(s, idx) ==
    SubSeq(s, 1, idx) \o SubSeq(s, idx + 1 + CharWidthAt(s, idx), Len(s))

(***************************************************************************)
(* AppState::normalize_url                                                 *)
(***************************************************************************)
HttpPrefix == <<"h", "t", "t", "p", ":", "/", "/">>

HttpsPrefix == <<"h", "t", "t", "p", "s", ":", "/", "/">>

starts_with(s, p) == Len(s) >= Len(p) /\ SubSeq(s, 1, Len(p)) = p

\* variant of normalize_url that knows "http://" only
normalize_url_http_only(u) ==
    IF starts_with(u, HttpPrefix)
    THEN u
    ELSE HttpPrefix \o u

normalize_url(u) ==
    IF starts_with(u, HttpPrefix) \/ starts_with(u, HttpsPrefix)
    THEN u
    ELSE HttpPrefix \o u

(***************************************************************************)
(* The values a fetch can bring back.                                      *)
(***************************************************************************)
\* OGPInfo of a page with n meta elements and og:image content im
Page(n, im) ==
    [title |-> "t", description |-> "d", image |-> im,
     metadata |-> [k \in 1..n |-> <<"tag", "content">>]]

\* a document without meta elements has no og:image; the others name one
Pages == {Page(n, IF n = 0 THEN "" ELSE "img") : n \in 0..MaxTags}

\* DynamicImage values image::load_from_memory can return (RGBA samples)
DynImages ==
    {[width |-> 2, height |-> 1, pixels |-> <<<<1, 2, 3, 255>>, <<4, 5, 6, 255>>>>]}

\* Image::from_dynamic_image
from_dynamic_image(img) ==
    [width |-> img.width, height |-> img.height,
     pixels |-> [k \in 1..Len(img.pixels) |->
                    <<img.pixels[k][1], img.pixels[k][2], img.pixels[k][3]>>]]

FetchErrors == {"error sending request"}

\* Result<OGPInfo, reqwest::Error>
Ok(info) == [ok |-> TRUE, val |-> Some(info), err |-> ""]

Err(e) == [ok |-> FALSE, val |-> None, err |-> e]

\* format!("Failed to fetch OGP info: {}", err), as its two pieces
FailedMessage(e) == <<"Failed to fetch OGP info: ", e>>

\* a text given by its pieces is empty when every piece is
IsEmptyText(msg) == \A k \in 1..Len(msg) : msg[k] = ""

(***************************************************************************)
(* Fetch tasks: tokio::spawn(async { update_ogp(..).await; tx.send(()) })  *)
(* A task is a record; its pc is                                           *)
(*   "start"  spawned, before the first state.lock() of update_ogp         *)
(*   "doc"    fetch_ogp_info in progress for task.url                      *)
(*   "img"    fetch_ogp_info returned Ok, fetch_dynamic_image in progress  *)
(*   "send"   update_ogp returned, before tx_clone.send(())                *)
(* The last network call of a task returns, and the task takes the lock    *)
(* and commits, in one step: the step waits until the lock is free, and no *)
(* other task can see the result before the commit.                        *)
(***************************************************************************)
NewTask == [pc |-> "start", url |-> <<>>, ogp_result |-> None]

TaskSet == BagToSet(tasks)

InFlight == BagCardinality(tasks)

AddTask(u) == tasks' = tasks (+) SetToBag({u})

RemoveTask(t) == tasks' = tasks (-) SetToBag({t})

ReplaceTask(t, u) == tasks' = (tasks (-) SetToBag({t})) (+) SetToBag({u})

Running == pc_input = "read"

\* Arc<Mutex<AppState>>: handle_input and update_ogp lock and unlock within
\* one step; the redraw task keeps its guard from "lock" to the end of "draw"
LockFree == lock = "free"

ReceiverAlive == pc_redraw # "panicked"

(***************************************************************************)
(* Initial state: AppState::new, UI::new, and UI::run up to its loop.      *)
(***************************************************************************)
InitMetadataOffset == 0

InitApp ==
    /\ url = <<>>
    /\ cursor_position = 0
    /\ ogp_info = None
    /\ cached_image = None
    /\ error_message = None
    /\ metadata_offset = InitMetadataOffset

NormIdle == <<>>

RenderIdle == [pc |-> "idle"]

\* variant of InitRun without the initial send
InitRunNoSignal ==
    /\ tasks = EmptyBag
    /\ rx_changed = FALSE
    /\ pc_redraw = "changed"
    /\ lock = "free"
    /\ pc_input = "read"

\* ui.rs 41-45: the receiver is subscribed, then tx.send(()) leaves one unseen
\* version; the redraw task is spawned and the input loop starts
InitRun ==
    /\ tasks = EmptyBag
    /\ rx_changed = TRUE
    /\ pc_redraw = "changed"
    /\ lock = "free"
    /\ pc_input = "read"

Init ==
    /\ InitApp
    /\ InitRun
    /\ norm = NormIdle
    /\ render = RenderIdle

\* the process ends: the runtime, its tasks and the channel are dropped
ProcessEnds(how) ==
    /\ pc_input' = how
    /\ tasks' = EmptyBag
    /\ rx_changed' = FALSE
    /\ pc_redraw' = "cancelled"
    /\ lock' = "free"

(***************************************************************************)
(* self.tx.send(()).unwrap() in handle_input: the send fails, and unwrap   *)
(* panics, once the only receiver has been dropped.                        *)
(***************************************************************************)
SendFromInput ==
    IF ReceiverAlive
    THEN rx_changed' = TRUE /\ UNCHANGED <<tasks, pc_redraw, lock, pc_input>>
    ELSE ProcessEnds("panicked")

\* a panic inside handle_input unwinds run() and main()
InputPanic ==
    /\ ProcessEnds("panicked")
    /\ UNCHANGED <<appvars, purevars>>

(***************************************************************************)
(* UI::handle_input, one action per key.  The handler takes the state lock *)
(* on entry and holds it until it returns.                                 *)
(***************************************************************************)
\* lines 182-187: the url and cursor after Char(c), or the panic of String::insert
CharEdit(u, p, c) ==
    IF InsertPanics(u, p)
    THEN [panic |-> TRUE, url |-> u, cursor_position |-> p]
    ELSE [panic |-> FALSE, url |-> StringInsert(u, p, c), cursor_position |-> p + 1]

\* lines 188-195: the url and cursor after Backspace, or the panic of String::remove
BackspaceEdit(u, p) ==
    IF p > 0
    THEN IF RemovePanics(u, p - 1)
         THEN [panic |-> TRUE, url |-> u, cursor_position |-> p]
         ELSE [panic |-> FALSE, url |-> StringRemove(u, p - 1), cursor_position |-> p - 1]
    ELSE [panic |-> FALSE, url |-> u, cursor_position |-> p]

KeyChar(c) ==
    /\ Running /\ LockFree
    /\ Len(url) + Len(Utf8(c)) <= MaxUrlBytes
    /\ LET r == CharEdit(url, cursor_position, c)
       IN  IF r.panic
           THEN InputPanic
           ELSE /\ url' = r.url
                /\ cursor_position' = r.cursor_position
                /\ SendFromInput
                /\ UNCHANGED <<ogp_info, cached_image, error_message,
                               metadata_offset, purevars>>

KeyBackspace ==
    /\ Running /\ LockFree
    /\ LET r == BackspaceEdit(url, cursor_position)
       IN  IF r.panic
           THEN InputPanic
           ELSE IF cursor_position > 0
                THEN /\ url' = r.url
                     /\ cursor_position' = r.cursor_position
                     /\ SendFromInput
                     /\ UNCHANGED <<ogp_info, cached_image, error_message,
                                    metadata_offset, purevars>>
                ELSE UNCHANGED vars

KeyLeft ==
    /\ Running /\ LockFree
    /\ IF cursor_position > 0
       THEN /\ cursor_position' = cursor_position - 1
            /\ SendFromInput
            /\ UNCHANGED <<url, ogp_info, cached_image, error_message,
                           metadata_offset, purevars>>
       ELSE UNCHANGED vars

KeyRight ==
    /\ Running /\ LockFree
    /\ IF cursor_position < Len(url)
       THEN /\ cursor_position' = cursor_position + 1
            /\ SendFromInput
            /\ UNCHANGED <<url, ogp_info, cached_image, error_message,
                           metadata_offset, purevars>>
       ELSE UNCHANGED vars

\* variant of KeyUp that signals whether or not it scrolled
KeyUpAlwaysSends ==
    /\ Running /\ LockFree
    /\ metadata_offset' = Max(metadata_offset - 1, 0)
    /\ SendFromInput
    /\ UNCHANGED <<url, cursor_position, ogp_info, cached_image,
                   error_message, purevars>>

KeyUp ==
    /\ Running /\ LockFree
    /\ IF metadata_offset > 0
       THEN /\ metadata_offset' = metadata_offset - 1
            /\ SendFromInput
            /\ UNCHANGED <<url, cursor_position, ogp_info, cached_image,
                           error_message, purevars>>
       ELSE UNCHANGED vars

\* variant of KeyDown with the bound off by one
KeyDownOffByOne ==
    /\ Running /\ LockFree
    /\ IF IsSome(ogp_info) /\ metadata_offset < Len(Unwrap(ogp_info).metadata)
       THEN /\ metadata_offset' = metadata_offset + 1
            /\ SendFromInput
            /\ UNCHANGED <<url, cursor_position, ogp_info, cached_image,
                           error_message, purevars>>
       ELSE UNCHANGED vars

KeyDown ==
    /\ Running /\ LockFree
    /\ IF IsSome(ogp_info) /\ metadata_offset + 1 < Len(Unwrap(ogp_info).metadata)
       THEN /\ metadata_offset' = metadata_offset + 1
            /\ SendFromInput
            /\ UNCHANGED <<url, cursor_position, ogp_info, cached_image,
                           error_message, purevars>>
       ELSE UNCHANGED vars

\* variant of KeyEnterEmpty that forgets the image
KeyEnterEmptyKeepsImage ==
    /\ Running /\ LockFree
    /\ url = <<>>
    /\ ogp_info' = None
    /\ error_message' = None
    /\ SendFromInput
    /\ UNCHANGED <<url, cursor_position, cached_image, metadata_offset, purevars>>

\* variant of KeyEnterEmpty that aborts the fetches in flight
KeyEnterEmptyCancels ==
    /\ Running /\ LockFree
    /\ url = <<>>
    /\ ogp_info' = None
    /\ cached_image' = None
    /\ error_message' = None
    /\ IF ReceiverAlive
       THEN rx_changed' = TRUE /\ tasks' = EmptyBag
            /\ UNCHANGED <<pc_redraw, lock, pc_input>>
       ELSE ProcessEnds("panicked")
    /\ UNCHANGED <<url, cursor_position, metadata_offset, purevars>>

\* Enter with an empty url: the three fields are cleared under the lock
KeyEnterEmpty ==
    /\ Running /\ LockFree
    /\ url = <<>>
    /\ ogp_info' = None
    /\ cached_image' = None
    /\ error_message' = None
    /\ SendFromInput
    /\ UNCHANGED <<url, cursor_position, metadata_offset, purevars>>

\* Enter with a non-empty url: a fetch task is spawned, nothing else changes
KeyEnterSpawn ==
    /\ Running /\ LockFree
    /\ url # <<>>
    /\ InFlight < MaxFetches
    /\ AddTask(NewTask)
    /\ UNCHANGED <<appvars, rx_changed, pc_redraw, lock, pc_input, purevars>>

\* Esc: handle_input returns true, run() leaves its loop and returns, main() returns
KeyEsc ==
    /\ Running /\ LockFree
    /\ ProcessEnds("exited")
    /\ UNCHANGED <<appvars, purevars>>

(***************************************************************************)
(* update_ogp, run by a spawned task.                                      *)
(***************************************************************************)
\* variant of FetchReadUrl without the inner block: the guard lives on
FetchReadUrlKeepsGuard(t) ==
    /\ Running /\ LockFree
    /\ t.pc = "start"
    /\ lock' = "fetch"
    /\ ReplaceTask(t, [t EXCEPT !.pc = "doc", !.url = normalize_url(url)])
    /\ UNCHANGED <<appvars, rx_changed, pc_redraw, pc_input, purevars>>

\* lines 57-61: lock, url = state.normalize_url(), unlock
FetchReadUrl(t) ==
    /\ Running /\ LockFree
    /\ t.pc = "start"
    /\ ReplaceTask(t, [t EXCEPT !.pc = "doc", !.url = normalize_url(url)])
    /\ UNCHANGED <<appvars, rx_changed, pc_redraw, lock, pc_input, purevars>>

\* line 63: fetch_ogp_info returns Ok(info)
FetchDocOk(t) ==
    /\ Running
    /\ t.pc = "doc"
    /\ \E info \in Pages :
          ReplaceTask(t, [t EXCEPT !.pc = "img", !.url = <<>>,
                                   !.ogp_result = Some(Ok(info))])
    /\ UNCHANGED <<appvars, rx_changed, pc_redraw, lock, pc_input, purevars>>

\* variants of CommittedFields with a plausible slip each
CommittedFieldsErrClears(ogp_result, dynamic_img_result) ==
    IF ogp_result.ok
    THEN [ogp_info |-> Some(Unwrap(ogp_result.val)),
          cached_image |-> IF IsSome(dynamic_img_result)
                           THEN Some(from_dynamic_image(Unwrap(dynamic_img_result)))
                           ELSE None,
          error_message |-> None]
    ELSE [ogp_info |-> None,
          cached_image |-> None,
          error_message |-> Some(FailedMessage(ogp_result.err))]

CommittedFieldsKeepsError(ogp_result, dynamic_img_result) ==
    IF ogp_result.ok
    THEN [ogp_info |-> Some(Unwrap(ogp_result.val)),
          cached_image |-> IF IsSome(dynamic_img_result)
                           THEN Some(from_dynamic_image(Unwrap(dynamic_img_result)))
                           ELSE None,
          error_message |-> error_message]
    ELSE [ogp_info |-> ogp_info,
          cached_image |-> cached_image,
          error_message |-> Some(FailedMessage(ogp_result.err))]

CommittedFieldsKeepsImage(ogp_result, dynamic_img_result) ==
    IF ogp_result.ok
    THEN [ogp_info |-> Some(Unwrap(ogp_result.val)),
          cached_image |-> IF IsSome(dynamic_img_result)
                           THEN Some(from_dynamic_image(Unwrap(dynamic_img_result)))
                           ELSE cached_image,
          error_message |-> None]
    ELSE [ogp_info |-> ogp_info,
          cached_image |-> cached_image,
          error_message |-> Some(FailedMessage(ogp_result.err))]

CommittedFieldsImageFailureIsError(ogp_result, dynamic_img_result) ==
    IF ogp_result.ok
    THEN IF IsSome(dynamic_img_result)
         THEN [ogp_info |-> Some(Unwrap(ogp_result.val)),
               cached_image |-> Some(from_dynamic_image(Unwrap(dynamic_img_result))),
               error_message |-> None]
         ELSE [ogp_info |-> ogp_info,
               cached_image |-> cached_image,
               error_message |-> Some(FailedMessage("image"))]
    ELSE [ogp_info |-> ogp_info,
          cached_image |-> cached_image,
          error_message |-> Some(FailedMessage(ogp_result.err))]

\* lines 71-80: the fields of AppState after the match on ogp_result
CommittedFields(ogp_result, dynamic_img_result) ==
    IF ogp_result.ok
    THEN [ogp_info |-> Some(Unwrap(ogp_result.val)),
          cached_image |-> IF IsSome(dynamic_img_result)
                           THEN Some(from_dynamic_image(Unwrap(dynamic_img_result)))
                           ELSE None,
          error_message |-> None]
    ELSE [ogp_info |-> ogp_info,
          cached_image |-> cached_image,
          error_message |-> Some(FailedMessage(ogp_result.err))]

\* variant of Commit that assigns without taking the lock
CommitWithoutLock(t, ogp_result, dynamic_img_result) ==
    /\ LET f == CommittedFields(ogp_result, dynamic_img_result)
       IN  /\ ogp_info' = f.ogp_info
           /\ cached_image' = f.cached_image
           /\ error_message' = f.error_message
    /\ ReplaceTask(t, [t EXCEPT !.pc = "send", !.url = <<>>, !.ogp_result = None])
    /\ UNCHANGED <<url, cursor_position, metadata_offset, rx_changed, pc_redraw,
                   lock, pc_input, purevars>>

\* lines 70-81: lock, assign, unlock on return
Commit(t, ogp_result, dynamic_img_result) ==
    /\ LockFree
    /\ LET f == CommittedFields(ogp_result, dynamic_img_result)
       IN  /\ ogp_info' = f.ogp_info
           /\ cached_image' = f.cached_image
           /\ error_message' = f.error_message
    /\ ReplaceTask(t, [t EXCEPT !.pc = "send", !.url = <<>>, !.ogp_result = None])
    /\ UNCHANGED <<url, cursor_position, metadata_offset, rx_changed, pc_redraw,
                   lock, pc_input, purevars>>

\* variant of FetchDocErr that goes on to the image request
FetchDocErrTriesImage(t) ==
    /\ Running
    /\ t.pc = "doc"
    /\ \E e \in FetchErrors :
          ReplaceTask(t, [t EXCEPT !.pc = "img", !.url = <<>>,
                                   !.ogp_result = Some(Err(e))])
    /\ UNCHANGED <<appvars, rx_changed, pc_redraw, lock, pc_input, purevars>>

\* lines 63-81: fetch_ogp_info returns Err, no image request is made
\* (dynamic_img_result = None), and the Err branch commits
FetchDocErr(t) ==
    /\ Running
    /\ t.pc = "doc"
    /\ \E e \in FetchErrors : Commit(t, Err(e), None)

\* lines 65-81: fetch_dynamic_image(&ogp_info.image) returns Ok(img), .ok() is
\* Some(img), and the Ok branch commits
FetchImageOkWith(t, img) ==
    /\ Running
    /\ t.pc = "img"
    /\ Unwrap(Unwrap(t.ogp_result).val).image # ""
    /\ Commit(t, Unwrap(t.ogp_result), Some(img))

FetchImageOk(t) == \E img \in DynImages : FetchImageOkWith(t, img)

\* lines 65-81: fetch_dynamic_image returns Err (the request, the body or the
\* decoding failed), .ok() is None, and the Ok branch commits
FetchImageErr(t) ==
    /\ Running
    /\ t.pc = "img"
    /\ Commit(t, Unwrap(t.ogp_result), None)

\* ui.rs line 234: tx_clone.send(()).unwrap(), then the task ends
FetchSend(t) ==
    /\ Running
    /\ t.pc = "send"
    /\ rx_changed' = (IF ReceiverAlive THEN TRUE ELSE rx_changed)
    /\ RemoveTask(t)
    /\ UNCHANGED <<appvars, pc_redraw, lock, pc_input, purevars>>

(***************************************************************************)
(* The redraw task of UI::run.                                             *)
(*   "changed"  in rx.changed().await                                      *)
(*   "lock"     woken, in state_clone.lock().await                         *)
(*   "draw"     holds the state lock (and the terminal lock), drawing      *)
(*   "panicked" the task has panicked; its receiver and guards are dropped *)
(*   "cancelled" the process has ended                                     *)
(***************************************************************************)
\* variant of RedrawWake that leaves the seen version behind
RedrawWakeKeepsSignal ==
    /\ Running
    /\ pc_redraw = "changed"
    /\ rx_changed
    /\ pc_redraw' = "lock"
    /\ UNCHANGED <<appvars, tasks, rx_changed, lock, pc_input, purevars>>

\* rx.changed().await returns once the channel holds an unseen version, and
\* marks it seen
RedrawWake ==
    /\ Running
    /\ pc_redraw = "changed"
    /\ rx_changed
    /\ rx_changed' = FALSE
    /\ pc_redraw' = "lock"
    /\ UNCHANGED <<appvars, tasks, lock, pc_input, purevars>>

RedrawLock ==
    /\ Running
    /\ pc_redraw = "lock"
    /\ LockFree
    /\ lock' = "redraw"
    /\ pc_redraw' = "draw"
    /\ UNCHANGED <<appvars, tasks, rx_changed, pc_input, purevars>>

\* draw_ui lines 93-96: url_display.insert(state.cursor_position, '|')
DrawPanics == cursor_position <= Len(url) /\ InsertPanics(url, cursor_position)

\* variant of RedrawDraw that locks the state again before it ends
RedrawDrawRelocks ==
    /\ Running
    /\ pc_redraw = "draw"
    /\ LockFree
    /\ pc_redraw' = IF DrawPanics THEN "panicked" ELSE "changed"
    /\ lock' = "free"
    /\ UNCHANGED <<appvars, tasks, rx_changed, pc_input, purevars>>

RedrawDraw ==
    /\ Running
    /\ pc_redraw = "draw"
    /\ pc_redraw' = IF DrawPanics THEN "panicked" ELSE "changed"
    /\ lock' = "free"
    /\ UNCHANGED <<appvars, tasks, rx_changed, pc_input, purevars>>

(***************************************************************************)
(* The session.                                                            *)
(***************************************************************************)
Next ==
    \/ \E c \in Chars : KeyChar(c)
    \/ KeyBackspace
    \/ KeyLeft
    \/ KeyRight
    \/ KeyUp
    \/ KeyDown
    \/ KeyEnterEmpty
    \/ KeyEnterSpawn
    \/ KeyEsc
    \/ \E t \in TaskSet : FetchReadUrl(t)
    \/ \E t \in TaskSet : FetchDocOk(t)
    \/ \E t \in TaskSet : FetchDocErr(t)
    \/ \E t \in TaskSet : FetchImageOk(t)
    \/ \E t \in TaskSet : FetchImageErr(t)
    \/ \E t \in TaskSet : FetchSend(t)
    \/ RedrawWake
    \/ RedrawLock
    \/ RedrawDraw

Spec == Init /\ [][Next]_vars

(***************************************************************************)
(* The session under fair scheduling: the runtime runs every ready task,   *)
(* a taken lock is released, and every network call returns.  No fairness  *)
(* is assumed of the user's keys.                                          *)
(***************************************************************************)
FairScheduling ==
    /\ WF_vars(RedrawWake)
    /\ WF_vars(RedrawLock)
    /\ WF_vars(RedrawDraw)
    /\ WF_vars(\E t \in TaskSet : FetchReadUrl(t))
    /\ WF_vars(\E t \in TaskSet : FetchDocOk(t) \/ FetchDocErr(t))
    /\ WF_vars(\E t \in TaskSet : FetchImageOk(t) \/ FetchImageErr(t))
    /\ WF_vars(\E t \in TaskSet : FetchSend(t))

SpecFair == Init /\ [][Next]_vars /\ FairScheduling

(***************************************************************************)
(* The session with fairness of the redraw task alone: nothing is assumed  *)
(* of the network or of the user.                                          *)
(***************************************************************************)
FairRedraw ==
    /\ WF_vars(RedrawWake)
    /\ WF_vars(RedrawLock)
    /\ WF_vars(RedrawDraw)

SpecFairRedraw == Init /\ [][Next]_vars /\ FairRedraw

(***************************************************************************)
(* Properties of the session.                                              *)
(***************************************************************************)
TagCount == IF IsSome(ogp_info) THEN Len(Unwrap(ogp_info).metadata) ELSE 0

SomeTaskAt(pc) == \E t \in TaskSet : t.pc = pc

\* C1: a commit of a fetch whose document retrieval failed leaves ogp_info and
\* cached_image as they were and sets error_message to a non-empty text.
C1_FailedCommitKeepsLastGood ==
    [][\A t \in TaskSet :
          FetchDocErr(t) =>
             /\ ogp_info' = ogp_info
             /\ cached_image' = cached_image
             /\ IsSome(error_message')
             /\ ~IsEmptyText(Unwrap(error_message'))]_vars

\* a failed fetch has just committed while metadata and an image were on display
C1_Witness ==
    /\ SomeTaskAt("send")
    /\ IsSome(error_message)
    /\ IsSome(ogp_info)
    /\ IsSome(cached_image)

\* C2: a commit of a fetch whose document and image were both obtained leaves
\* error_message None, ogp_info the fetched record and cached_image the decoded
\* image, whatever the fields held before.
C2_SuccessCommitReplacesAll ==
    [][\A t \in TaskSet : \A img \in DynImages :
          FetchImageOkWith(t, img) =>
             /\ error_message' = None
             /\ ogp_info' = Some(Unwrap(Unwrap(t.ogp_result).val))
             /\ cached_image' = Some(from_dynamic_image(img))]_vars

\* a fetch with an image has just committed
C2_Witness ==
    /\ SomeTaskAt("send")
    /\ error_message = None
    /\ IsSome(ogp_info)
    /\ IsSome(cached_image)

\* C3: Enter on an empty url leaves ogp_info, cached_image and error_message
\* None and adds no fetch task.
C3_EmptySubmitClears ==
    [][KeyEnterEmpty =>
          /\ ogp_info' = None
          /\ cached_image' = None
          /\ error_message' = None
          /\ tasks' \sqsubseteq tasks]_vars

\* the field is empty and everything is cleared while an earlier fetch has ended
C3_Witness ==
    /\ Running
    /\ url = <<>>
    /\ ogp_info = None /\ cached_image = None /\ error_message = None
    /\ metadata_offset > 0

\* C4: cursor_position is always within [0, len(url)] and on a character
\* boundary of url, so that insert and remove are applied at valid indices.
C4_CursorIsValidIndex ==
    /\ cursor_position \in 0..Len(url)
    /\ is_char_boundary(url, cursor_position)

\* C5: from every state, handling a printable character and then a backspace
\* gives back the url and the cursor position.
C5_InsertThenBackspaceRestores ==
    \A c \in Chars :
       LET r1 == CharEdit(url, cursor_position, c)
           r2 == BackspaceEdit(r1.url, r1.cursor_position)
       IN  /\ ~r1.panic
           /\ ~r2.panic
           /\ r2.url = url
           /\ r2.cursor_position = cursor_position

\* C6: the scroll offset stays within [0, max(0, metadata_count - 1)].
C6_ScrollOffsetInRange ==
    /\ 0 <= metadata_offset
    /\ metadata_offset <= Max(0, TagCount - 1)

AsciiUrls == UNION {[1..n -> {"a"}] : n \in 0..MaxUrlBytes}

InitScroll ==
    /\ url \in AsciiUrls
    /\ cursor_position \in 0..Len(url)
    /\ ogp_info \in {None} \cup {Some(info) : info \in Pages}
    /\ cached_image \in {None} \cup
          (IF IsSome(ogp_info) THEN {Some(from_dynamic_image(img)) : img \in DynImages}
                               ELSE {})
    /\ error_message \in {None} \cup {Some(FailedMessage(e)) : e \in FetchErrors}
    /\ metadata_offset = InitMetadataOffset
    /\ tasks = EmptyBag
    /\ rx_changed \in BOOLEAN
    /\ pc_redraw = "changed"
    /\ lock = "free"
    /\ pc_input = "read"
    /\ norm = NormIdle
    /\ render = RenderIdle

NextScroll ==
    \/ KeyUp
    \/ KeyDown

SpecScroll == InitScroll /\ [][NextScroll]_vars

\* C7: with the metadata fixed and the offset starting at 0, no sequence of Up
\* and Down takes the offset above max(0, tag_count - 1) or below 0.
C7_UpDownStayInRange ==
    /\ metadata_offset >= 0
    /\ IF TagCount = 0 THEN metadata_offset = 0 ELSE metadata_offset < TagCount

\* Down has been pressed up to the last row of a list of several tags
C7_Witness ==
    /\ TagCount >= 2
    /\ metadata_offset = TagCount - 1
    /\ rx_changed

(***************************************************************************)
(* normalize_url alone: a text is drawn, then normalized, then normalized  *)
(* again; norm is the sequence of the texts so far.                        *)
(***************************************************************************)
\* the beginnings of "https://" and "http://", with a letter dropped or in
\* upper case too
Stems ==
    {SubSeq(HttpsPrefix, 1, n) : n \in 0..Len(HttpsPrefix)}
       \cup {SubSeq(HttpPrefix, 1, n) : n \in 0..Len(HttpPrefix)}
       \cup {SubSeq(HttpPrefix, 2, Len(HttpPrefix)), SubSeq(HttpsPrefix, 2, Len(HttpsPrefix)),
             <<"H", "T", "T", "P", ":", "/", "/">>, <<"h", "t", "t", "p", ":", "/">>,
             <<" ">> \o HttpPrefix, HttpPrefix \o HttpPrefix, HttpPrefix \o HttpsPrefix}

Tails == UNION {[1..n -> {"a", "/", "h"}] : n \in 0..MaxTail}

NormInputs == {stem \o tail : stem \in Stems, tail \in Tails}

InitNorm ==
    /\ InitApp
    /\ InitRun
    /\ norm \in {<<u>> : u \in NormInputs}
    /\ render = RenderIdle

Normalize ==
    /\ Len(norm) \in 1..2
    /\ norm' = Append(norm, normalize_url(norm[Len(norm)]))
    /\ UNCHANGED <<appvars, tasks, rx_changed, pc_redraw, lock, pc_input, render>>

NextNorm == Normalize

SpecNorm == InitNorm /\ [][NextNorm]_vars

\* the text begins with the characters of p, compared one by one
BeginsWith(u, p) == Len(u) >= Len(p) /\ \A k \in 1..Len(p) : u[k] = p[k]

HasScheme(u) == BeginsWith(u, HttpPrefix) \/ BeginsWith(u, HttpsPrefix)

\* C8: normalization prepends "http://" exactly when the text has neither
\* prefix, returns a text that has one unchanged, and is idempotent.
C8_NormalizeIdempotent ==
    /\ Len(norm) >= 2 =>
          /\ HasScheme(norm[1]) => norm[2] = norm[1]
          /\ ~HasScheme(norm[1]) =>
                /\ Len(norm[2]) = Len(HttpPrefix) + Len(norm[1])
                /\ \A k \in 1..Len(HttpPrefix) : norm[2][k] = HttpPrefix[k]
                /\ \A k \in 1..Len(norm[1]) : norm[2][Len(HttpPrefix) + k] = norm[1][k]
    /\ Len(norm) = 3 => norm[3] = norm[2]

\* a text without prefix got one, and the second normalization was applied
C8_Witness ==
    /\ Len(norm) = 3
    /\ ~HasScheme(norm[1])
    /\ norm[2] # norm[1]

(***************************************************************************)
(* draw_image_with_colors alone: the two loops over the target cells, one  *)
(* step per cell.  usize products stay far below 2^64 (x, y < 2^16 and     *)
(* width, height < 2^32), so plain integers are exact.                     *)
(***************************************************************************)
\* variant of SrcCoord that rounds to the nearest sample above
SrcCoordRoundedUp(pos, size, target) == (pos * size + target - 1) \div target

\* lines 156-157: x * (img.width as usize) / target_width, and the same for y
SrcCoord(pos, size, target) == (pos * size) \div target

\* line 158
SrcIndex(src_x, src_y, width) == src_y * width + src_x

\* a decoded image of the given size: a DynamicImage through from_dynamic_image
ImageOfSize(w, h) ==
    from_dynamic_image([width |-> w, height |-> h,
                        pixels |-> [k \in 1..(w * h) |-> <<k, 0, 0, 255>>]])

InitRender ==
    /\ InitApp
    /\ InitRun
    /\ norm = NormIdle
    /\ \E w \in 1..MaxDim, h \in 1..MaxDim, tw \in 0..MaxDim, th \in 0..MaxDim :
          render = [pc |-> "loop", img |-> ImageOfSize(w, h),
                    target_width |-> tw, target_height |-> th,
                    x |-> 0, y |-> 0, painted |-> None]

\* lines 155-169: the body of the inner loop for the cell (x, y)
RenderCell ==
    /\ render.pc = "loop"
    /\ render.y < render.target_height
    /\ render.x < render.target_width
    /\ LET img == render.img
           src_x == SrcCoord(render.x, img.width, render.target_width)
           src_y == SrcCoord(render.y, img.height, render.target_height)
           idx == SrcIndex(src_x, src_y, img.width)
       IN  IF idx >= Len(img.pixels)
           THEN render' = [render EXCEPT !.pc = "panicked",
                              !.painted = Some([x |-> render.x, y |-> render.y,
                                                src_x |-> src_x, src_y |-> src_y,
                                                idx |-> idx, color |-> <<>>,
                                                row |-> render.target_height - 1 - render.y])]
           ELSE render' = [render EXCEPT !.x = render.x + 1,
                              !.painted = Some([x |-> render.x, y |-> render.y,
                                                src_x |-> src_x, src_y |-> src_y,
                                                idx |-> idx, color |-> img.pixels[idx + 1],
                                                row |-> render.target_height - 1 - render.y])]
    /\ UNCHANGED <<appvars, tasks, rx_changed, pc_redraw, lock, pc_input, norm>>

\* line 155: the inner loop is over, line 154 moves to the next row
RenderNextRow ==
    /\ render.pc = "loop"
    /\ render.y < render.target_height
    /\ render.x = render.target_width
    /\ render' = [render EXCEPT !.x = 0, !.y = render.y + 1]
    /\ UNCHANGED <<appvars, tasks, rx_changed, pc_redraw, lock, pc_input, norm>>

\* line 154: the outer loop is over
RenderDone ==
    /\ render.pc = "loop"
    /\ render.y = render.target_height
    /\ render' = [render EXCEPT !.pc = "done"]
    /\ UNCHANGED <<appvars, tasks, rx_changed, pc_redraw, lock, pc_input, norm>>

NextRender ==
    \/ RenderCell
    \/ RenderNextRow
    \/ RenderDone

SpecRender == InitRender /\ [][NextRender]_vars

\* the largest q with q * d <= n, found by search
FloorOfQuotient(n, d) == CHOOSE q \in 0..n : q * d <= n /\ (q + 1) * d > n

\* C9: every target cell samples src_x = floor(x*width/target_width) < width,
\* src_y = floor(y*height/target_height) < height and an index inside the
\* samples; a 1x1 target samples (0, 0) only.
C9_SampleIndexInBounds ==
    /\ render.pc # "panicked"
    /\ render.pc # "idle" =>
          /\ Len(render.img.pixels) = render.img.width * render.img.height
          /\ IsSome(render.painted) =>
                LET c == Unwrap(render.painted)
                    img == render.img
                IN  /\ c.src_x = FloorOfQuotient(c.x * img.width, render.target_width)
                    /\ c.src_y = FloorOfQuotient(c.y * img.height, render.target_height)
                    /\ c.src_x < img.width
                    /\ c.src_y < img.height
                    /\ c.idx = c.src_y * img.width + c.src_x
                    /\ c.idx >= 0 /\ c.idx < img.width * img.height
                    /\ (render.target_width = 1 /\ render.target_height = 1) =>
                          (c.src_x = 0 /\ c.src_y = 0)

\* the last cell of a target that is larger than the image has been painted
C9_Witness ==
    /\ render.pc = "done"
    /\ IsSome(render.painted)
    /\ render.target_width > render.img.width
    /\ render.img.width > 1
    /\ Unwrap(render.painted).x = render.target_width - 1
    /\ Unwrap(render.painted).src_x = render.img.width - 1

(***************************************************************************)
(* Properties of the lock, the redraw signal and the fetch pipeline.       *)
(***************************************************************************)
\* C11: the redraw task is never in its paint step while it holds the state
\* lock (it would copy the state, release the lock, and only then paint).
C11_PaintsWithoutLock == ~(pc_redraw = "draw" /\ lock = "redraw")

\* C12: while a fetch is in flight the state lock is held by no fetch task and
\* not by the input handler, so a text-editing key is applied without waiting
\* for any step of a fetch: either the lock is free and the key is enabled, or
\* the redraw task holds it and its release is enabled.
C12_FetchNeverBlocksKeys ==
    (Running /\ InFlight > 0) =>
        /\ lock \in {"free", "redraw"}
        /\ lock = "free" => (ENABLED KeyBackspace) /\ (ENABLED KeyLeft)
        /\ lock = "redraw" => ENABLED RedrawDraw

\* a document request is in progress for a url the field no longer holds: a key
\* was applied during the network call
C12_Witness ==
    /\ Running
    /\ lock = "free"
    /\ \E t \in TaskSet : t.pc = "doc" /\ t.url # normalize_url(url)

\* the steps that call tx.send(()): a key handler that changed the state or
\* cleared it, and the last step of a fetch task
SendStep ==
    \/ \E t \in TaskSet : FetchSend(t) /\ ReceiverAlive
    \/ /\ Running /\ LockFree /\ ReceiverAlive /\ Running'
       /\ appvars' # appvars \/ KeyEnterEmpty
       /\ tasks' = tasks

\* paints the redraw task still owes: one for an unseen signal, one for a
\* signal it has observed and not yet painted for
PendingPaints ==
    (IF rx_changed THEN 1 ELSE 0) + (IF pc_redraw \in {"lock", "draw"} THEN 1 ELSE 0)

\* C13: the redraw signal is one coalescing slot.  An observation needs a
\* pending signal and clears it whole, however many sends made it; the slot is
\* filled only by a send; a paint is started only after an observation; the
\* paints owed grow by at most one, and only in a step that sends, and each
\* paint pays one: paints never exceed sends plus the initial signal.
C13_SignalIsSingleSlot ==
    [][/\ RedrawWake => rx_changed /\ ~rx_changed'
       /\ (pc_redraw # "lock" /\ pc_redraw' = "lock") => rx_changed /\ ~rx_changed'
       /\ (~rx_changed /\ rx_changed') => SendStep
       /\ (pc_redraw # "draw" /\ pc_redraw' = "draw") => pc_redraw = "lock"
       /\ PendingPaints' > PendingPaints =>
             SendStep /\ PendingPaints' = PendingPaints + 1
       /\ RedrawDraw => PendingPaints' = PendingPaints - 1
       /\ SendStep => rx_changed']_vars

\* after observing a signal and before painting for it, the consumer has a new
\* signal pending: the sends made since are one pending wake-up
C13_Witness ==
    /\ pc_redraw = "lock"
    /\ rx_changed
    /\ Len(url) = MaxUrlBytes
    /\ cursor_position = 0

\* the consumer holds the state as constructed and is painting it
PaintingFirstFrame == pc_redraw = "draw" /\ InitApp

\* a key event has changed the session, spawned a fetch or ended the process
KeyHasActed == ~(InitApp /\ tasks = EmptyBag /\ Running)

\* C14: the signal pending at session start makes the consumer paint a first
\* frame of the initial state: under fair scheduling, unless a key event acts
\* first, the consumer observes the signal and paints the session as
\* constructed, and that paint completes.
C14_FirstFramePainted ==
    /\ <>(PaintingFirstFrame \/ KeyHasActed)
    /\ PaintingFirstFrame ~> (pc_redraw = "changed" \/ ~Running)

\* the first frame is being painted and no key has acted
C14_Witness == PaintingFirstFrame /\ ~KeyHasActed

\* a mutation awaits its frame: its signal is unseen, or a fetch has committed
\* and is about to send
MutationUnpainted == rx_changed \/ SomeTaskAt("send")

\* the consumer holds the state and paints it to the end
PaintSucceeds == pc_redraw = "draw" /\ ~DrawPanics

\* C15: no wake-up is lost: under fair scheduling, after any mutation (a key
\* event that changed the state, an empty-submit clear, a fetch commit) the
\* consumer eventually paints a frame of a state that includes it, unless the
\* session ends first.
C15_MutationEventuallyPainted ==
    MutationUnpainted ~> (PaintSucceeds \/ ~Running)

\* C16: a painted frame is never torn: from the moment the painter holds the
\* state until its paint ends no field of the session changes, so the frame
\* shows the state of one instant; and a commit or a clear changes its three
\* fields in one step, so that instant lies between whole mutations.
C16_FrameIsNotTorn ==
    [][/\ pc_redraw = "draw" => appvars' = appvars
       /\ \A t \in TaskSet :
             (FetchDocErr(t) \/ FetchImageOk(t) \/ FetchImageErr(t)) =>
                 pc_redraw # "draw" /\ pc_redraw' # "draw"
       /\ KeyEnterEmpty => pc_redraw # "draw" /\ pc_redraw' # "draw"]_vars

\* a frame is being painted while a fetch that will commit next is in flight
\* and metadata are on display
C16_Witness ==
    /\ pc_redraw = "draw"
    /\ SomeTaskAt("img")
    /\ IsSome(ogp_info)
    /\ IsSome(cached_image)

\* C17: a fetch in flight is never cancelled and its commit wins over a clear
\* made meanwhile: while the process runs a task leaves only by its own send,
\* an empty-submit clear leaves every task in flight as it was, and a commit
\* made while the field is empty still installs its outcome (metadata, or the
\* error message).
C17_LateCommitOverwritesClear ==
    [][/\ (KeyEnterEmpty /\ Running') => tasks' = tasks
       /\ (Running' /\ InFlight' < InFlight) => \E t \in TaskSet : FetchSend(t)
       /\ \A t \in TaskSet :
             /\ (url = <<>> /\ (FetchImageOk(t) \/ FetchImageErr(t))) =>
                    IsSome(ogp_info') /\ url' = <<>>
             /\ (url = <<>> /\ FetchDocErr(t)) =>
                    IsSome(error_message') /\ url' = <<>>]_vars

\* the field is empty, the metadata were cleared after a scroll (the offset is
\* stale), and a fetch that failed has just committed its error message over
\* the cleared state
C17_Witness ==
    /\ url = <<>>
    /\ ogp_info = None
    /\ cached_image = None
    /\ metadata_offset > 0
    /\ IsSome(error_message)
    /\ SomeTaskAt("send")

\* the number of fetch tasks at a position
TasksAt(pc) ==
    BagCardinality([t \in {x \in TaskSet : x.pc = pc} |-> CopiesIn(t, tasks)])

\* C18: a failed document retrieval ends the pipeline with a failure and no
\* image request; an invocation makes at most one document request and at
\* most one image request: a document request starts only as a spawned task
\* leaves its start, an image request only as a document request returns Ok,
\* and a task starts only by a submission.
C18_NoImageRequestAfterFailure ==
    [][/\ \A t \in TaskSet :
             FetchDocErr(t) =>
                /\ TasksAt("img")' = TasksAt("img")
                /\ TasksAt("doc")' = TasksAt("doc") - 1
                /\ TasksAt("send")' = TasksAt("send") + 1
                /\ IsSome(error_message')
       /\ TasksAt("doc")' > TasksAt("doc") =>
             /\ TasksAt("doc")' = TasksAt("doc") + 1
             /\ TasksAt("start")' = TasksAt("start") - 1
       /\ TasksAt("img")' > TasksAt("img") =>
             /\ TasksAt("img")' = TasksAt("img") + 1
             /\ TasksAt("doc")' = TasksAt("doc") - 1
             /\ \E t \in TaskSet : FetchDocOk(t)
       /\ TasksAt("start")' > TasksAt("start") => KeyEnterSpawn]_vars

\* a fetch whose document retrieval failed has committed, and nothing but the
\* error message is on display
C18_Witness ==
    /\ SomeTaskAt("send")
    /\ IsSome(error_message)
    /\ ogp_info = None
    /\ cached_image = None
    /\ metadata_offset = 0

\* C19: the image step is best-effort: when the document was retrieved and the
\* image was not, the commit installs the new metadata and leaves error_message
\* None, and the task goes on to send; error_message becomes a new message
\* only by the commit of a failed document retrieval.
C19_ImageFailureIsNotAnError ==
    [][/\ \A t \in TaskSet :
             FetchImageErr(t) =>
                /\ ogp_info' = Some(Unwrap(Unwrap(t.ogp_result).val))
                /\ error_message' = None
                /\ TasksAt("send")' = TasksAt("send") + 1
       /\ (IsSome(error_message') /\ error_message' # error_message) =>
             \E t \in TaskSet : FetchDocErr(t)]_vars

\* a page that names an image has been committed without one and without an
\* error message
C19_Witness ==
    /\ SomeTaskAt("send")
    /\ IsSome(ogp_info)
    /\ Unwrap(ogp_info).image # ""
    /\ cached_image = None
    /\ error_message = None
    /\ metadata_offset = 0

\* C20: a key whose guard is false does nothing at all: Backspace or Left at
\* cursor 0, Right at the end of the url, Up at offset 0, Down without metadata
\* or on the last tag leave every variable as it was, the redraw signal
\* included; Left and Right change no field but cursor_position, Up and Down
\* none but metadata_offset.
C20_GuardedKeysAreNoOps ==
    [][/\ (KeyBackspace /\ cursor_position = 0) => UNCHANGED vars
       /\ (KeyLeft /\ cursor_position = 0) => UNCHANGED vars
       /\ (KeyRight /\ cursor_position = Len(url)) => UNCHANGED vars
       /\ (KeyUp /\ metadata_offset = 0) => UNCHANGED vars
       /\ (KeyDown /\ (ogp_info = None \/ metadata_offset + 1 >= TagCount)) =>
             UNCHANGED vars
       /\ (KeyLeft \/ KeyRight) =>
             UNCHANGED <<url, ogp_info, cached_image, error_message, metadata_offset>>
       /\ (KeyUp \/ KeyDown) =>
             UNCHANGED <<url, cursor_position, ogp_info, cached_image,
                         error_message>>]_vars

\* every guard is false and no signal is pending: the cursor is at both ends
\* of an empty url, the offset is 0 on metadata of at most one tag, and the
\* consumer waits
C20_Witness ==
    /\ Running /\ LockFree
    /\ url = <<>>
    /\ cursor_position = 0
    /\ IsSome(ogp_info)
    /\ metadata_offset = 0
    /\ TagCount <= 1
    /\ pc_redraw = "changed"
    /\ ~rx_changed

(***************************************************************************)
(* Properties of the submitted url and of lock acquisition.                *)
(***************************************************************************)
\* C21: a fetch requests the url the field held when Enter was pressed; as
\* Enter spawns a fetch only on a non-empty field, no document request is ever
\* made for the normalization of the empty field.
C21_NeverRequestsEmptyField ==
    \A t \in TaskSet : t.pc = "doc" => t.url # normalize_url(<<>>)

\* terminal.lock(): taken by the redraw task after the state lock and kept to
\* the end of the paint; run() takes it only after its loop, holding nothing
TerminalLock == IF pc_redraw = "draw" THEN "redraw" ELSE "free"

\* the step takes the state lock and gives it back: a key handler, the read
\* of the url by a fetch, or a commit
LocksWithinStep ==
    \/ appvars' # appvars
    \/ pc_input' # pc_input
    \/ \E t \in TaskSet : FetchReadUrl(t) \/ FetchDocErr(t)
                             \/ FetchImageOk(t) \/ FetchImageErr(t)

\* C22: the session never deadlocks.  The state lock is taken only when free
\* (never by its holder again); the terminal lock is held only by a task that
\* took the state lock first; in every state of a running session a key can
\* be handled or the holder of the lock can release it; and under fair
\* scheduling of the redraw task the lock is free again and again, so that
\* every key, Escape included, gets handled, whatever fetches are in flight.
C22_NoDeadlock ==
    /\ [](TerminalLock # "free" => lock = TerminalLock)
    /\ [](Running => IF LockFree THEN (ENABLED KeyEsc) /\ (ENABLED KeyLeft)
                                  ELSE ENABLED RedrawDraw)
    /\ [][/\ (lock' # lock /\ lock' # "free") => lock = "free"
          /\ LocksWithinStep => lock = "free"]_vars
    /\ []<>(~Running \/ LockFree)

\* the consumer paints under both locks with a signal pending while a spawned
\* fetch waits for the state lock to read the url
C22_Witness ==
    /\ Running
    /\ lock = "redraw"
    /\ TerminalLock = "redraw"
    /\ rx_changed
    /\ SomeTaskAt("start")

====
